---- MODULE Spec2Model ----
(***************************************************************************)
(* Label search over a block iterator of a memory-mapped input (rsonpath). *)
(*                                                                         *)
(*   input/mmap.rs                      MmapInput, MmapBlockIterator       *)
(*   classification/memmem/nosimd.rs    SequentialMemmemClassifier         *)
(*   classification/memmem/shared/mask_64.rs   find_in_mask                *)
(*   rsonpath/src/runner.rs             ResolvedInput::run_engine          *)
(*                                                                         *)
(* Bytes are one-character strings.  Byte offsets are 0-based as in the    *)
(* source; TLA+ sequences are 1-based, so byte k of a slice s is s[k + 1]. *)
(* A usize that wrapped below zero is kept as its negative two's           *)
(* complement representative (-1 stands for 2^64 - 1), and so is a usize   *)
(* that wrapped above 2^64 - 1 and one close below 2^64: a negative offset *)
(* stands for an offset far past every input.  A u64 mask is the           *)
(* set of its set bit positions, a subset of 0..WordBits-1.                *)
(***************************************************************************)
EXTENDS Integers, Sequences, FiniteSets, TLC

VARIABLES
    label,            \* JsonString: the raw bytes of the label, no quotes
    overflow_checks,  \* build profile: TRUE = arithmetic overflow panics
    file_len,         \* true length of the mapped file
    mmap,             \* MmapInput.mmap: file bytes followed by the padding
    idx,              \* MmapBlockIterator.idx
    held,             \* the block the caller holds (start offset), -1 = none
    previous_block,   \* bitmask matcher: carry into the next window
    mask_start,       \* bitmask matcher: offset where its scan began, -1 = none
    crashed,          \* the process panicked
    exhausted,        \* next has reported "no more data" on this iterator
    last,             \* record of the last operation and what it returned
    again,            \* record of find_label re-run with the same arguments
    io,               \* the reads of the input that fail, and with what error
    run               \* the runner: the ResolvedInput of a run_engine call

vars == <<label, overflow_checks, file_len, mmap, idx, held, previous_block,
          mask_start, crashed, exhausted, last, again, io, run>>

-----------------------------------------------------------------------------
(* Sizes *)

\* const N: the block size the iterator and the matchers are instantiated with
N == 64
\* input::MAX_BLOCK_SIZE: map_file pads the mapping to a multiple of it
MAX_BLOCK_SIZE == 128
\* width of the u64 masks of find_in_mask
WordBits == 64

\* Bounds of the explored inputs and call sequences
MaxSkip == 1          \* largest count passed to skip
MaxBlocks == 4        \* the iterator offset is explored up to MaxBlocks * N
MaxWrapped == 1       \* and, wrapped, down to 2^64 - MaxWrapped * N
TailLen == 2          \* bytes of file past a MAX_BLOCK_SIZE boundary

-----------------------------------------------------------------------------
(* Bytes and labels *)

QUOTE == "\""
BACKSLASH == "\\"
SPACE == " "
ZERO == "0x00"

Min(S) == CHOOSE x \in S : \A y \in S : x <= y

\* JsonString::bytes_with_quotes
bytes_with_quotes(l) == <<QUOTE>> \o l \o <<QUOTE>>

\* byte at 0-based offset k of a slice
At(s, k) == s[k + 1]

\* unsigned subtraction a - b on usize: the value, and whether it underflowed
USub(a, b) == [val |-> a - b, underflow |-> a >= 0 /\ a - b < 0]

\* unsigned addition a + b on usize, on representatives: the wrapped value,
\* and whether the sum passed 2^64 - 1
UAdd(a, b) ==
    [val |-> a + b,
     overflow |-> (a < 0 /\ b < 0) \/ ((a < 0 \/ b < 0) /\ a + b >= 0)]

\* a <= b on usize, on representatives
ULe(a, b) == IF (a < 0) = (b < 0) THEN a <= b ELSE a >= 0

\* An isize count is kept as the pair (hi, lo) of the number
\* hi * (2^64 / N) + lo, lo small: the counts near zero have hi = 0, and
\* the counts from 2^64 / N on, whose product with N does not fit a usize,
\* have hi >= 1.  isize::MAX = 2^63 - 1 is (N / 2) * (2^64 / N) - 1.
Count(hi, lo) == [hi |-> hi, lo |-> lo]
CountNeg(c) == c.hi < 0 \/ (c.hi = 0 /\ c.lo < 0)
ISIZE_MAX == Count(N \div 2, -1)

\* count as usize * N for count >= 0: the wrapped product, and whether the
\* product passed 2^64 - 1
UMulN(c) ==
    [val |-> c.lo * N,
     overflow |-> c.hi >= 2 \/ (c.hi = 1 /\ c.lo >= 0)]

-----------------------------------------------------------------------------
(* Input::is_member_match for MmapInput (in_slice::is_member_match):       *)
(* the bytes of the span [from, to] equal the label with its quotes and    *)
(* the opening quote is not escaped.  A span that is not inside the input  *)
(* (from wrapped, or to past the end) holds no label.                      *)
is_member_match(bytes, from, to, l) ==
    /\ from >= 0
    /\ to >= from
    /\ to < Len(bytes)
    /\ SubSeq(bytes, from + 1, to + 1) = bytes_with_quotes(l)
    /\ (from = 0 \/ At(bytes, from - 1) # BACKSLASH)

-----------------------------------------------------------------------------
(* MmapInput::map_file *)

\* mutant: the mapping is not padded
map_file_pad_none(len) == 0

map_file_pad(len) ==
    LET rem == len % MAX_BLOCK_SIZE
    IN  IF rem = 0 THEN 0 ELSE MAX_BLOCK_SIZE - rem

\* the mapping: file_len + pad bytes, the bytes past the file read as zero
map_file(file) ==
    LET pad == map_file_pad(Len(file))
    IN  file \o [i \in 1..pad |-> ZERO]

-----------------------------------------------------------------------------
(* MmapBlockIterator *)

\* MmapBlockIterator::next on a mapping of input_len bytes: what it returns
\* (block = start offset of the yielded slice, blen = its length) and the
\* new idx.  Slicing past the end of the mapping panics.
\* mutant: reporting the end puts the cursor back at the start
iter_next_rewind(input_len, i) ==
    IF ULe(input_len, i)
    THEN [kind |-> "None", block |-> -1, blen |-> 0, idx |-> 0]
    ELSE IF i + N > input_len
         THEN [kind |-> "Panic", block |-> -1, blen |-> 0, idx |-> i]
         ELSE [kind |-> "Some", block |-> i, blen |-> N, idx |-> i + N]

iter_next(input_len, i) ==
    IF ULe(input_len, i)
    THEN [kind |-> "None", block |-> -1, blen |-> 0, idx |-> i]
    ELSE IF i + N > input_len
         THEN [kind |-> "Panic", block |-> -1, blen |-> 0, idx |-> i]
         ELSE [kind |-> "Some", block |-> i, blen |-> N, idx |-> i + N]

\* MmapBlockIterator::offset(count): assert!(count >= 0), then
\* idx += count as usize * N; with overflow checks (chk) the product and
\* the sum panic when they do not fit a usize, without them they wrap
\* mutant: no assertion, the count is cast and added
iter_offset_unchecked(i, count, chk) ==
    [kind |-> "Ok", idx |-> UAdd(i, UMulN(count).val).val]

iter_offset(i, count, chk) ==
    IF CountNeg(count)
    THEN [kind |-> "Panic", idx |-> i]
    ELSE LET mul == UMulN(count)
             sum == UAdd(i, mul.val)
         IN  IF chk /\ (mul.overflow \/ sum.overflow)
             THEN [kind |-> "Panic", idx |-> i]
             ELSE [kind |-> "Ok", idx |-> sum.val]

\* The matchers are generic over the input: a memory-mapped input never
\* fails to read (next returns Ok in both branches), another backend can.
\* io.next_at is the offset at which reading the next block fails (-1: no
\* read fails), io.first tells whether the read of the first-block routine
\* fails, io.error is the InputError of the failing read.
NoFailure == [next_at |-> -1, first |-> FALSE, error |-> "-"]

\* InputBlockIterator::next of the input the matcher runs on: the failing
\* read returns Err and leaves the cursor where it was
input_next(input_len, i, f) ==
    IF f.next_at = i
    THEN [kind |-> "Err", block |-> -1, blen |-> 0, idx |-> i, err |-> f.error]
    ELSE iter_next(input_len, i)

\* InputBlockIterator::get_offset
get_offset(i) == i

\* the bytes of a block: a borrowed slice of the mapping
BlockBytes(bytes, start, blen) == SubSeq(bytes, start + 1, start + blen)

-----------------------------------------------------------------------------
(* Validator calls are logged in call order: who called, the span, the answer *)

VCall(by, from, to, ok) == [by |-> by, from |-> from, to |-> to, ok |-> ok]

-----------------------------------------------------------------------------
(* SequentialMemmemClassifier (nosimd.rs) *)

\* the span find_label_sequential hands to the validator for a first
\* character at absolute offset j: (j - 1, j + label_size - 2)
seq_span(j, label_size) ==
    LET end == UAdd(j, label_size)
    IN  [from |-> USub(j, 1), to |-> USub(end.val, 2), overflow |-> end.overflow]

\* the position returned for a hit at block-relative index res: res + offset - 1
\* mutant: the position of the matched character, not of the opening quote
seq_result_first_char(res, offset) == UAdd(res, offset).val

seq_result(res, offset) == USub(UAdd(res, offset).val, 1).val

\* offset += block.len(): the new offset, and whether the sum passed 2^64 - 1
seq_advance(offset, blen) == UAdd(offset, blen)

\* let j = offset + i is computed for every byte the closure is called on:
\* the least index of the block at which the sum passes 2^64 - 1, blen if
\* there is none
seq_overflow_at(offset, blen) ==
    IF offset < 0 /\ offset + blen > 0 THEN -offset ELSE blen

\* the closure of block.iter().copied().enumerate().find(..), applied to the
\* indices whose byte equals first_c (the && short-circuits on the others),
\* in ascending order
RECURSIVE block_find(_, _, _, _, _, _)
block_find(bytes, l, cands, offset, chk, log) ==
    IF cands = {}
    THEN [kind |-> "Miss", i |-> -1, vcalls |-> log]
    ELSE LET i == Min(cands)
             j == UAdd(offset, i).val
             span == seq_span(j, Len(bytes_with_quotes(l)))
         IN  IF chk /\ (span.overflow \/ span.from.underflow \/ span.to.underflow)
             THEN [kind |-> "Panic", i |-> i, vcalls |-> log]
             ELSE LET ok == is_member_match(bytes, span.from.val, span.to.val, l)
                      log2 == Append(log, VCall("sequential", span.from.val, span.to.val, ok))
                  IN  IF ok
                      THEN [kind |-> "Hit", i |-> i, vcalls |-> log2]
                      ELSE block_find(bytes, l, cands \ {i}, offset, chk, log2)

\* the while-let loop of find_label_sequential; `it` is the iterator's idx.
\* Returns the result, the iterator's idx afterwards, the number of blocks
\* next yielded, whether next reported the end, and the validator calls.
RECURSIVE sequential_loop(_, _, _, _, _, _, _, _)
sequential_loop(bytes, l, it, offset, chk, pulled, log, f) ==
    LET nx == input_next(Len(bytes), it, f)
    IN  IF nx.kind = "Err"
        THEN [kind |-> "Err", pos |-> -1, block |-> -1, idx |-> nx.idx,
              pulled |-> pulled, sawEnd |-> FALSE, fromFirst |-> FALSE, vcalls |-> log,
              err |-> nx.err]
        ELSE IF nx.kind = "Panic"
        THEN [kind |-> "Panic", pos |-> -1, block |-> -1, idx |-> nx.idx,
              pulled |-> pulled, sawEnd |-> FALSE, fromFirst |-> FALSE, vcalls |-> log]
        ELSE IF nx.kind = "None"
        THEN [kind |-> "None", pos |-> -1, block |-> -1, idx |-> nx.idx,
              pulled |-> pulled, sawEnd |-> TRUE, fromFirst |-> FALSE, vcalls |-> log]
        ELSE LET block == BlockBytes(bytes, nx.block, nx.blen)
                 first_c == l[1]
                 ovf == IF chk THEN seq_overflow_at(offset, nx.blen) ELSE nx.blen
                 cands == {i \in 0..(ovf - 1) : At(block, i) = first_c}
                 found == block_find(bytes, l, cands, offset, chk, log)
                 res == IF found.kind = "Miss" /\ ovf < nx.blen
                        THEN [kind |-> "Panic", i |-> ovf, vcalls |-> found.vcalls]
                        ELSE found
                 adv == seq_advance(offset, nx.blen)
             IN  IF res.kind = "Panic" \/ (res.kind = "Miss" /\ chk /\ adv.overflow)
                 THEN [kind |-> "Panic", pos |-> -1, block |-> -1, idx |-> nx.idx,
                       pulled |-> pulled + 1, sawEnd |-> FALSE, fromFirst |-> FALSE,
                       vcalls |-> res.vcalls]
                 ELSE IF res.kind = "Hit"
                 THEN [kind |-> "Some", pos |-> seq_result(res.i, offset),
                       block |-> nx.block, idx |-> nx.idx,
                       pulled |-> pulled + 1, sawEnd |-> FALSE, fromFirst |-> FALSE,
                       vcalls |-> res.vcalls]
                 ELSE sequential_loop(bytes, l, nx.idx, adv.val,
                                      chk, pulled + 1, res.vcalls, f)

\* find_label_sequential: label.bytes()[0] is read before the loop and
\* panics (index out of bounds) on the empty label
find_label_sequential(bytes, l, it, offset, chk, log, f) ==
    IF Len(l) = 0
    THEN [kind |-> "Panic", pos |-> -1, block |-> -1, idx |-> it,
          pulled |-> 0, sawEnd |-> FALSE, fromFirst |-> FALSE, vcalls |-> log]
    ELSE sequential_loop(bytes, l, it, offset, chk, 0, log, f)

\* shared::find_label_in_first_block: scans the tail of the block the caller
\* holds, from start_idx, for the byte after the opening quote; a candidate
\* at absolute offset j is validated on the span (j - 1, j + label_size - 2);
\* a failing read of the input is returned as Err
RECURSIVE first_block_find(_, _, _, _)
first_block_find(bytes, l, cands, log) ==
    IF cands = {}
    THEN [kind |-> "None", pos |-> -1, vcalls |-> log]
    ELSE LET j == Min(cands)
             to == j + Len(bytes_with_quotes(l)) - 2
             ok == is_member_match(bytes, j - 1, to, l)
             log2 == Append(log, VCall("first_block", j - 1, to, ok))
         IN  IF ok
             THEN [kind |-> "Some", pos |-> j - 1, vcalls |-> log2]
             ELSE first_block_find(bytes, l, cands \ {j}, log2)

find_label_in_first_block(bytes, l, first_block, start_idx, f) ==
    LET block_idx == start_idx % N
        block == BlockBytes(bytes, first_block, N)
        c1 == bytes_with_quotes(l)[2]
        cands == {start_idx + (i - block_idx) : i \in
                    {k \in block_idx..(N - 1) :
                        At(block, k) = c1 /\ start_idx + (k - block_idx) >= 1}}
    IN  IF f.first
        THEN [kind |-> "Err", pos |-> -1, vcalls |-> <<>>, err |-> f.error]
        ELSE first_block_find(bytes, l, cands, <<>>)

\* mutant: the sequential search runs before the first block's result is used
find_label_eager(bytes, l, first_block, start_idx, it, chk, f) ==
    LET fb == IF first_block = -1
              THEN [kind |-> "None", pos |-> -1, vcalls |-> <<>>]
              ELSE find_label_in_first_block(bytes, l, first_block, start_idx, f)
        sq == find_label_sequential(bytes, l, it, get_offset(it), chk, fb.vcalls, f)
    IN  IF fb.kind = "Err"
        THEN [kind |-> "Err", pos |-> -1, block |-> -1, idx |-> it,
              pulled |-> 0, sawEnd |-> FALSE, fromFirst |-> FALSE, vcalls |-> <<>>,
              err |-> fb.err]
        ELSE IF fb.kind = "Some"
        THEN [kind |-> "Some", pos |-> fb.pos, block |-> first_block, idx |-> sq.idx,
              pulled |-> sq.pulled, sawEnd |-> sq.sawEnd, fromFirst |-> TRUE,
              vcalls |-> fb.vcalls]
        ELSE sq

\* mutant: an error of the first-block routine is dropped and the search
\* goes on with the blocks of the iterator
find_label_swallow(bytes, l, first_block, start_idx, it, chk, f) ==
    LET fb == IF first_block = -1
              THEN [kind |-> "None", pos |-> -1, vcalls |-> <<>>]
              ELSE find_label_in_first_block(bytes, l, first_block, start_idx, f)
    IN  IF fb.kind = "Some"
        THEN [kind |-> "Some", pos |-> fb.pos, block |-> first_block, idx |-> it,
              pulled |-> 0, sawEnd |-> FALSE, fromFirst |-> TRUE, vcalls |-> fb.vcalls]
        ELSE find_label_sequential(bytes, l, it, get_offset(it), chk, fb.vcalls, f)

\* Memmem::find_label of the sequential classifier; first_block = -1 is None
find_label(bytes, l, first_block, start_idx, it, chk, f) ==
    LET fb == IF first_block = -1
              THEN [kind |-> "None", pos |-> -1, vcalls |-> <<>>]
              ELSE find_label_in_first_block(bytes, l, first_block, start_idx, f)
    IN  IF fb.kind = "Err"
        THEN [kind |-> "Err", pos |-> -1, block |-> -1, idx |-> it,
              pulled |-> 0, sawEnd |-> FALSE, fromFirst |-> FALSE, vcalls |-> <<>>,
              err |-> fb.err]
        ELSE IF fb.kind = "Some"
        THEN [kind |-> "Some", pos |-> fb.pos, block |-> first_block, idx |-> it,
              pulled |-> 0, sawEnd |-> FALSE, fromFirst |-> TRUE, vcalls |-> fb.vcalls]
        ELSE LET next_block_offset == get_offset(it)
             IN  find_label_sequential(bytes, l, it, next_block_offset, chk, fb.vcalls, f)

-----------------------------------------------------------------------------
(* find_in_mask (mask_64.rs) *)

\* first << 1 on a u64: bit 63 is shifted out
shl1(m) == {i + 1 : i \in {k \in m : k + 1 < WordBits}}

\* (previous_block | (first << 1)) & second
mask_result(prev, first, second) == (prev \cup shl1(first)) \cap second

\* u64::trailing_zeros of a non-zero word
\* mutant: the highest set bit is taken
trailing_zeros_high(m) == CHOOSE x \in m : \A y \in m : y <= x

trailing_zeros(m) == Min(m)

\* result &= !(1 << idx)
clear_bit(m, i) == m \ {i}

\* the span handed to the validator for candidate bit idx:
\* (offset + idx - 2, offset + idx + label_size - 3), computed left to
\* right on usize; overflow tells whether one of the additions passed
\* 2^64 - 1
mask_span(offset, i, label_size) ==
    LET at == UAdd(offset, i)
        end == UAdd(at.val, label_size)
    IN  [from |-> USub(at.val, 2), to |-> USub(end.val, 3),
         overflow |-> at.overflow \/ end.overflow]

\* the position returned on acceptance: offset + idx - 2
\* mutant: the position is one byte late
mask_position_late(offset, i) == USub(UAdd(offset, i).val, 1).val

mask_position(offset, i) == USub(UAdd(offset, i).val, 2).val

RECURSIVE mask_loop(_, _, _, _, _, _)
mask_loop(bytes, l, result, offset, chk, log) ==
    IF result = {}
    THEN [kind |-> "None", pos |-> -1, vcalls |-> log]
    ELSE LET i == trailing_zeros(result)
             span == mask_span(offset, i, Len(bytes_with_quotes(l)))
         IN  IF chk /\ (span.overflow \/ span.from.underflow \/ span.to.underflow)
             THEN [kind |-> "Panic", pos |-> -1, vcalls |-> log]
             ELSE LET ok == is_member_match(bytes, span.from.val, span.to.val, l)
                      log2 == Append(log, VCall("mask", span.from.val, span.to.val, ok))
                  IN  IF ok
                      THEN [kind |-> "Some", pos |-> mask_position(offset, i), vcalls |-> log2]
                      ELSE mask_loop(bytes, l, clear_bit(result, i), offset, chk, log2)

find_in_mask(bytes, l, prev, first, second, offset, chk) ==
    mask_loop(bytes, l, mask_result(prev, first, second), offset, chk, <<>>)

\* The caller of find_in_mask (the structural classifier and the window loop):
\* bit i of first marks the label's first character at byte i of the window,
\* bit i of second the character after it (the closing quote of a label of
\* one character); the carry is the first-bit of the window's last byte.
classify(window, c) == {i \in 0..(WordBits - 1) : At(window, i) = c}
mask_first(window, l) == classify(window, bytes_with_quotes(l)[2])
mask_second(window, l) == classify(window, bytes_with_quotes(l)[3])
carry_out(first) == IF (WordBits - 1) \in first THEN {0} ELSE {}

-----------------------------------------------------------------------------
(* The record of an operation: every field is present for every operation  *)

NoOp ==
    [op |-> "none", kind |-> "-", pos |-> -1, block |-> -1, blen |-> 0,
     idx0 |-> 0, idx1 |-> 0, pulled |-> 0, sawEnd |-> FALSE, fromFirst |-> FALSE,
     first_block |-> -1, start_idx |-> 0, count |-> Count(0, 0), vcalls |-> <<>>,
     prev |-> {}, first |-> {}, second |-> {}, offset |-> 0, scan0 |-> -1,
     doneBefore |-> FALSE, err |-> "-"]

-----------------------------------------------------------------------------
(* The explored inputs: a file of blanks with up to two pieces written into *)
(* it, each piece built from the label: the quoted label, the quoted label  *)
(* behind a backslash, the label without its opening quote, and the label's *)
(* first character alone.                                                   *)

Labels == {<<>>, <<"a">>, <<"a", "b">>}

Fill(n) == [i \in 1..n |-> SPACE]

\* s with piece written at 0-based offset pos, cut at the end of s
Overlay(s, pos, piece) ==
    [i \in 1..Len(s) |->
        IF i > pos /\ i <= pos + Len(piece) THEN piece[i - pos] ELSE s[i]]

Piece(l, k) ==
    CASE k = "occ"  -> bytes_with_quotes(l)
      [] k = "esc"  -> <<BACKSLASH>> \o bytes_with_quotes(l)
      [] k = "bare" -> l \o <<QUOTE>>
      [] k = "char" -> IF l = <<>> THEN <<>> ELSE <<l[1]>>
      [] OTHER      -> <<>>

FileLens == {0, N + TailLen, MAX_BLOCK_SIZE, MAX_BLOCK_SIZE + TailLen}

\* where the first piece goes: at the start of the input, around the first
\* block boundary, and at the start of the second block
FirstPlacements ==
    {<<0, "none">>, <<0, "occ">>, <<0, "bare">>, <<0, "char">>,
     <<1, "occ">>, <<1, "bare">>,
     <<N - 2, "occ">>, <<N - 2, "esc">>, <<N - 1, "occ">>, <<N - 1, "bare">>,
     <<N, "occ">>, <<N, "esc">>}

\* where the second piece goes: inside the second block, and across the
\* boundary of the second and third block
SecondPlacements ==
    {<<0, "none">>, <<N + 8, "occ">>, <<MAX_BLOCK_SIZE - 1, "occ">>}

Files(l) ==
    {Overlay(Overlay(Fill(n), a[1], Piece(l, a[2])), b[1], Piece(l, b[2])) :
        n \in FileLens, a \in FirstPlacements, b \in SecondPlacements}

\* offsets into the held block at which the caller resumes a search
StartOffsets == {0, 2}

\* the counts passed to skip: -1 to MaxSkip, the least count whose product
\* with N does not fit a usize, and isize::MAX
SkipCounts == {Count(0, c) : c \in (-1)..MaxSkip} \cup {Count(1, 0), ISIZE_MAX}

-----------------------------------------------------------------------------
(* The runner (runner.rs): a run_engine call, step by step.  kind,          *)
(* fallback_kind and file are the fields of the ResolvedInput the call is   *)
(* on, kind0 and fallback0 those of the first call; depth counts the        *)
(* nested run_engine calls, maps the map_file calls and fails the failed    *)
(* ones, engine_runs the run_and_output calls, ran_with is the kind of the  *)
(* input the engine ran on.                                                 *)

ResolvedInputKind == {"Mmap", "Owned", "Buffered"}
FileOrStdin == {"File", "Stdin"}

NoRun ==
    [pc |-> "none", kind |-> "-", fallback_kind |-> "None", file |-> "-",
     kind0 |-> "-", fallback0 |-> "None", depth |-> 0, maps |-> 0, fails |-> 0,
     engine_runs |-> 0, ran_with |-> "-", result |-> "-"]

\* with_output.run_and_output(engine, input): the engine runs once on the
\* input of the current kind; its error is the error of the call, its
\* result is printed, and print! panics when stdout cannot be written
run_and_output(r, ok, printed) ==
    [r EXCEPT !.pc = "done", !.engine_runs = r.engine_runs + 1,
              !.ran_with = r.kind,
              !.result = IF ~ok THEN "EngineErr"
                         ELSE IF printed THEN "Ok" ELSE "Panic"]

\* mutant: the retried input keeps its fallback kind
new_input_keep(r) == [r EXCEPT !.kind = r.fallback_kind]

\* ResolvedInput { kind: fallback_kind, fallback_kind: None, file: self.file }
new_input(r) == [r EXCEPT !.kind = r.fallback_kind, !.fallback_kind = "None"]

-----------------------------------------------------------------------------
(* Initial state: the file is mapped and iter_blocks has made the iterator  *)

Init ==
    /\ label \in Labels
    /\ overflow_checks \in BOOLEAN
    /\ \E file \in Files(label) :
          /\ file_len = Len(file)
          /\ mmap = map_file(file)
    /\ idx = 0
    /\ held = -1
    /\ previous_block = {}
    /\ mask_start = -1
    /\ crashed = FALSE
    /\ exhausted = FALSE
    /\ last = NoOp
    /\ again = NoOp
    /\ io = NoFailure
    /\ run = NoRun

-----------------------------------------------------------------------------
(* Operations *)

\* the caller pulls a block: MmapBlockIterator::next
NextBlock ==
    /\ ~crashed
    /\ LET r == input_next(Len(mmap), idx, io)
       IN  /\ idx' = r.idx
           /\ held' = IF r.kind = "Some" THEN r.block ELSE held
           /\ crashed' = (r.kind = "Panic")
           /\ exhausted' = (exhausted \/ r.kind = "None")
           /\ last' = [NoOp EXCEPT !.op = "next", !.kind = r.kind,
                                   !.block = r.block, !.blen = r.blen,
                                   !.idx0 = idx, !.idx1 = r.idx,
                                   !.doneBefore = exhausted,
                                   !.err = IF r.kind = "Err" THEN r.err ELSE "-"]
    /\ again' = NoOp
    /\ previous_block' = {}
    /\ mask_start' = -1
    /\ UNCHANGED <<label, overflow_checks, file_len, mmap, io, run>>

\* the caller skips whole blocks: MmapBlockIterator::offset(count)
Skip(count) ==
    /\ ~crashed
    /\ LET r == iter_offset(idx, count, overflow_checks)
       IN  /\ r.idx \in (-(MaxWrapped * N))..(MaxBlocks * N)
           /\ idx' = r.idx
           /\ crashed' = (r.kind = "Panic")
           /\ last' = [NoOp EXCEPT !.op = "skip", !.kind = r.kind,
                                   !.count = count,
                                   !.idx0 = idx, !.idx1 = r.idx,
                                   !.doneBefore = exhausted]
    /\ again' = NoOp
    /\ previous_block' = {}
    /\ mask_start' = -1
    /\ UNCHANGED <<label, overflow_checks, file_len, mmap, held, exhausted, io, run>>

\* the record of a find_label call and its effect on the state
FindRecord(op, first_block, start_idx, r) ==
    [NoOp EXCEPT !.op = op, !.kind = r.kind, !.pos = r.pos, !.block = r.block,
                 !.blen = IF r.kind = "Some" THEN N ELSE 0,
                 !.idx0 = idx, !.idx1 = r.idx, !.pulled = r.pulled,
                 !.sawEnd = r.sawEnd, !.fromFirst = r.fromFirst,
                 !.first_block = first_block, !.start_idx = start_idx,
                 !.vcalls = r.vcalls, !.doneBefore = exhausted,
                 !.err = IF r.kind = "Err" THEN r.err ELSE "-"]

\* the linear matcher's find_label, with the held block or with no first block
FindLabel(useFirst, d) ==
    /\ ~crashed
    /\ useFirst => held # -1
    /\ ~useFirst => d = 0
    /\ LET first_block == IF useFirst THEN held ELSE -1
           start_idx == IF useFirst THEN held + d ELSE idx
           r == find_label(mmap, label, first_block, start_idx, idx, overflow_checks,
                           io)
       IN  /\ idx' = r.idx
           /\ held' = IF r.kind = "Some" THEN r.block ELSE held
           /\ crashed' = (r.kind = "Panic")
           /\ exhausted' = (exhausted \/ r.sawEnd)
           /\ last' = FindRecord("find", first_block, start_idx, r)
    /\ again' = NoOp
    /\ previous_block' = {}
    /\ mask_start' = -1
    /\ UNCHANGED <<label, overflow_checks, file_len, mmap, io, run>>

\* find_label called again with the arguments of the call before, the
\* caller having left the iterator alone in between
FindLabelAgain ==
    /\ ~crashed
    /\ last.op = "find"
    /\ again.op = "none"
    /\ LET r == find_label(mmap, label, last.first_block, last.start_idx, idx,
                           overflow_checks, io)
       IN  /\ idx' = r.idx
           /\ held' = IF r.kind = "Some" THEN r.block ELSE held
           /\ crashed' = (r.kind = "Panic")
           /\ exhausted' = (exhausted \/ r.sawEnd)
           /\ again' = FindRecord("again", last.first_block, last.start_idx, r)
    /\ UNCHANGED <<label, overflow_checks, file_len, mmap, previous_block,
                   mask_start, last, io, run>>

\* one window of the bitmask matcher: pull the next block, classify it, call
\* find_in_mask with the carry of the window before, keep the new carry
MaskStep ==
    /\ ~crashed
    /\ Len(label) >= 1
    /\ LET nx == input_next(Len(mmap), idx, io)
           scan0 == IF mask_start = -1 THEN idx ELSE mask_start
           prev == IF mask_start = -1 THEN {} ELSE previous_block
       IN  IF nx.kind # "Some"
           THEN /\ idx' = nx.idx
                /\ held' = held
                /\ crashed' = (nx.kind = "Panic")
                /\ exhausted' = (exhausted \/ nx.kind = "None")
                /\ previous_block' = {}
                /\ mask_start' = -1
                /\ last' = [NoOp EXCEPT !.op = "mask",
                                        !.kind = IF nx.kind = "None" THEN "End"
                                                 ELSE nx.kind,
                                        !.idx0 = idx, !.idx1 = nx.idx,
                                        !.scan0 = scan0, !.sawEnd = (nx.kind = "None"),
                                        !.doneBefore = exhausted,
                                        !.err = IF nx.kind = "Err" THEN nx.err ELSE "-"]
           ELSE LET window == BlockBytes(mmap, nx.block, nx.blen)
                    first == mask_first(window, label)
                    second == mask_second(window, label)
                    r == find_in_mask(mmap, label, prev, first, second, nx.block,
                                      overflow_checks)
                IN  /\ idx' = nx.idx
                    /\ held' = IF r.kind = "Some" THEN nx.block ELSE held
                    /\ crashed' = (r.kind = "Panic")
                    /\ exhausted' = exhausted
                    /\ previous_block' = IF r.kind = "None" THEN carry_out(first) ELSE {}
                    /\ mask_start' = IF r.kind = "None" THEN scan0 ELSE -1
                    /\ last' = [NoOp EXCEPT !.op = "mask", !.kind = r.kind,
                                            !.pos = r.pos, !.block = nx.block,
                                            !.blen = nx.blen,
                                            !.idx0 = idx, !.idx1 = nx.idx,
                                            !.vcalls = r.vcalls, !.prev = prev,
                                            !.first = first, !.second = second,
                                            !.offset = nx.block, !.scan0 = scan0,
                                            !.doneBefore = exhausted]
    /\ again' = NoOp
    /\ UNCHANGED <<label, overflow_checks, file_len, mmap, io, run>>

Next ==
    \/ NextBlock
    \/ \E count \in SkipCounts : Skip(count)
    \/ \E useFirst \in BOOLEAN, d \in StartOffsets : FindLabel(useFirst, d)
    \/ FindLabelAgain
    \/ MaskStep

Spec == Init /\ [][Next]_vars

-----------------------------------------------------------------------------
(* The matchers on an input whose reads can fail: the same operations on    *)
(* an input of four blocks, with one failing read                           *)

InputErrors == {"UnexpectedEof", "PermissionDenied"}

\* the failing read: next at the start of one of the first three blocks, or
\* the read of the first-block routine
IOFailures ==
    {[next_at |-> a, first |-> FALSE, error |-> e] :
        a \in {0, N, MAX_BLOCK_SIZE}, e \in InputErrors}
    \cup {[next_at |-> -1, first |-> TRUE, error |-> e] : e \in InputErrors}

IOFiles(l) ==
    {Overlay(Overlay(Fill(MAX_BLOCK_SIZE + TailLen), a[1], Piece(l, a[2])),
             b[1], Piece(l, b[2])) :
        a \in {<<0, "none">>, <<N - 1, "occ">>, <<N, "esc">>},
        b \in {<<0, "none">>, <<MAX_BLOCK_SIZE - 1, "occ">>}}

InitIO ==
    /\ label \in Labels \ {<<>>}
    /\ overflow_checks \in BOOLEAN
    /\ \E file \in IOFiles(label) :
          /\ file_len = Len(file)
          /\ mmap = map_file(file)
    /\ idx = 0
    /\ held = -1
    /\ previous_block = {}
    /\ mask_start = -1
    /\ crashed = FALSE
    /\ exhausted = FALSE
    /\ last = NoOp
    /\ again = NoOp
    /\ io \in IOFailures
    /\ run = NoRun

SpecIO == InitIO /\ [][Next]_vars

-----------------------------------------------------------------------------
(* Vocabulary of the properties *)

LabelSize == Len(bytes_with_quotes(label))

\* the validator accepts the quoted span of the label that starts at p
Accepted(p) == is_member_match(mmap, p, p + LabelSize - 1, label)

\* accepted positions whose first label character is at or after offset o
AcceptedFrom(o) == {p \in 0..(Len(mmap) - 1) : Accepted(p) /\ ULe(o, p + 1)}

\* accepted positions whose first label character is in the tail, from
\* start_idx on, of the first block handed to find_label
AcceptedInFirst(first_block, start_idx) ==
    IF first_block = -1 THEN {}
    ELSE {p \in 0..(Len(mmap) - 1) :
            Accepted(p) /\ p + 1 >= start_idx /\ p + 1 < first_block + N}

\* the positions a find_label call can report, in scan order
Reportable(r) == AcceptedInFirst(r.first_block, r.start_idx) \cup AcceptedFrom(r.idx0)

\* the first of them in scan order: the first block's tail is scanned
\* before the blocks of the iterator
ScanFirst(r) ==
    IF AcceptedInFirst(r.first_block, r.start_idx) # {}
    THEN Min(AcceptedInFirst(r.first_block, r.start_idx))
    ELSE Min(AcceptedFrom(r.idx0))

\* the records of find_label calls present in the state
FindRecords == {r \in {last, again} : r.op \in {"find", "again"}}

\* the result of a call, as the caller sees it
Result(r) == <<r.kind, r.pos, r.block>>

SomeAccepted(log) == \E k \in 1..Len(log) : log[k].ok

-----------------------------------------------------------------------------
(* C1: whenever the validator accepts the label at some position whose     *)
(* first character is at or after the offset the search starts from, the   *)
(* linear find_label returns a match, and the match is the lowest accepted *)
(* position in scan order.                                                 *)
C1_FirstMatch ==
    \A r \in FindRecords :
        Reportable(r) # {} => r.kind = "Some" /\ r.pos = ScanFirst(r)

\* the first accepted position from offset o has its opening quote in the
\* last byte of a block and the rest of the label in the next block
Straddling(o) ==
    /\ AcceptedFrom(o) # {}
    /\ (Min(AcceptedFrom(o)) + 1) % N = 0

(* C2: a label whose opening quote is the last byte of a block and whose   *)
(* other bytes are in the next block is found at the offset of that quote  *)
(* by the linear matcher (find_label without a first block) and by the     *)
(* bitmask matcher (find_in_mask window by window with the carry), so both *)
(* return the same position: the bitmask scan reports nothing before the   *)
(* window that holds the label's first character and the match in it.      *)
C2_CrossBlock ==
    /\ (last.op = "find" /\ last.first_block = -1 /\ Straddling(last.idx0))
          => (last.kind = "Some" /\ last.pos = Min(AcceptedFrom(last.idx0)))
    /\ (last.op = "mask" /\ Straddling(last.scan0))
          => LET p == Min(AcceptedFrom(last.scan0))
             IN  IF last.kind = "None"
                 THEN last.offset < p + 1
                 ELSE last.kind = "Some" /\ last.pos = p

ValidatedResult(r) ==
    /\ r.kind = "Some" =>
          /\ Len(r.vcalls) >= 1
          /\ LET c == r.vcalls[Len(r.vcalls)]
             IN  c.from = r.pos /\ c.to = r.pos + LabelSize - 1 /\ c.ok
          /\ Accepted(r.pos)
          /\ \A k \in 1..(Len(r.vcalls) - 1) : ~r.vcalls[k].ok
    /\ r.kind = "None" => ~SomeAccepted(r.vcalls)

(* C3: a position returned by find_label or by find_in_mask is one the     *)
(* validator was asked about, with the span of the quoted label starting   *)
(* there, and accepted; every candidate asked about before it was rejected *)
(* and the scan went on; when nothing is returned every call was rejected. *)
C3_OnlyValidated ==
    \A r \in {last, again} : r.op \in {"find", "again", "mask"} => ValidatedResult(r)

\* a match returned after the validator rejected an earlier candidate
C3_Witness ==
    /\ last.op \in {"find", "mask"}
    /\ last.kind = "Some"
    /\ Len(last.vcalls) >= 2

(* C4: the mapped length is the file length rounded up to a multiple of    *)
(* the block size, and every block the iterator yields (to the caller, to  *)
(* find_label or to the bitmask matcher) has exactly N bytes inside the    *)
(* mapping; next never slices past the end of the mapping.                 *)
C4_FullBlocks ==
    /\ Len(mmap) % N = 0
    /\ Len(mmap) >= file_len /\ Len(mmap) < file_len + MAX_BLOCK_SIZE
    /\ \A r \in {last, again} :
          /\ r.op = "next" => r.kind # "Panic"
          /\ r.block # -1 =>
                r.blen = N /\ r.block >= 0 /\ r.block + r.blen <= Len(mmap)

\* next yields the last block of a file whose length is no multiple of the
\* block size, after a skip: the block's tail is padding
C4_Witness ==
    /\ last.op = "next"
    /\ last.kind = "Some"
    /\ file_len % N # 0
    /\ last.block < file_len
    /\ last.block + N > file_len
    /\ idx = Len(mmap)

(* C5: when the validator accepts no candidate of a find_label call, the   *)
(* call returns Ok(None); and it returns Ok(None) only after next reported *)
(* that the iterator is exhausted.                                         *)
C5_NoMatchIsNone ==
    \A r \in FindRecords :
        /\ ~SomeAccepted(r.vcalls) => r.kind = "None"
        /\ r.kind = "None" => r.sawEnd /\ ULe(Len(mmap), r.idx1)

(* C6 as stated: a second find_label call with the same first block, start *)
(* offset and label, the caller not touching the iterator in between,      *)
(* returns what the first call returned.                                   *)
C6_Idempotent ==
    again.op = "again" => Result(again) = Result(last)

(* C6 amended: the second call returns what the first returned whenever    *)
(* the first call returned a match found in the supplied first block or    *)
(* returned no match.                                                      *)
C6_IdempotentUnlessConsumed ==
    (again.op = "again" /\ (last.fromFirst \/ last.kind = "None"))
        => Result(again) = Result(last)

\* a second call after a first call that matched in the first block
C6_Witness ==
    /\ again.op = "again"
    /\ last.fromFirst
    /\ again.kind = "Some"

MaskWord(r) ==
    {i \in 0..(WordBits - 1) :
        i \in r.second /\ (i \in r.prev \/ (i >= 1 /\ (i - 1) \in r.first))}

MaskAccepted(r) ==
    {i \in MaskWord(r) :
        is_member_match(mmap, r.offset + i - 2, r.offset + i + LabelSize - 3, label)}

(* C7: find_in_mask returns offset + idx - 2 for the least bit idx of      *)
(* (previous_block | (first << 1)) & second whose span the validator       *)
(* accepts, and None exactly when no set bit is accepted; bit 63 of first  *)
(* sets no bit of the word.                                                *)
C7_MaskLeastAccepted ==
    (last.op = "mask" /\ last.kind # "End") =>
        IF MaskAccepted(last) = {}
        THEN last.kind = "None"
        ELSE last.kind = "Some" /\ last.pos = last.offset + Min(MaskAccepted(last)) - 2

ExactConsumption(r) ==
    r.kind = "Some" =>
        IF r.fromFirst
        THEN r.pulled = 0 /\ r.idx1 = r.idx0
        ELSE LET k == ((r.pos + 1 - r.idx0) \div N) + 1
             IN  /\ r.pulled = k
                 /\ r.idx1 = r.idx0 + k * N
                 /\ r.idx1 = r.block + N

(* C8: a find_label call that returns a match found in the supplied first  *)
(* block leaves the iterator where it was; one that returns a match whose  *)
(* first character is in the k-th block it pulled has pulled exactly k     *)
(* blocks and leaves the iterator at the start of the block after it.      *)
C8_ExactConsumption ==
    /\ \A r \in FindRecords : ExactConsumption(r)
    /\ last.op = "find" => idx = (IF again.op = "again" THEN again.idx1 ELSE last.idx1)

\* a match in the second block the call pulled
C8_Witness ==
    /\ last.op = "find"
    /\ last.kind = "Some"
    /\ ~last.fromFirst
    /\ last.pulled = 2

(* C9: the block returned with a match contains the label's first          *)
(* character: its start s satisfies s <= p + 1 < s + N.                    *)
C9_BlockHoldsFirstChar ==
    \A r \in FindRecords :
        r.kind = "Some" => (r.block <= r.pos + 1 /\ r.pos + 1 < r.block + N)

\* a match whose opening quote lies in the block before the returned block
C9_Witness ==
    /\ last.op = "find"
    /\ last.kind = "Some"
    /\ ~last.fromFirst
    /\ last.pos = last.block - 1

(* C10: the iterator offset is a multiple of N and no operation lowers it; *)
(* next adds N when it yields a block and nothing when it reports the end; *)
(* skip(count) with count >= 0 adds count * N and yields no block; after   *)
(* next has reported the end, next reports the end again.                  *)
C10_MonotoneOffset ==
    /\ idx % N = 0
    /\ idx = (IF again.op = "again" THEN again.idx1 ELSE last.idx1)
    /\ \A r \in {last, again} :
          /\ ULe(r.idx0, r.idx1)
          /\ r.op = "next" =>
                /\ r.kind = "Some" => r.idx1 = r.idx0 + N
                /\ r.kind = "None" => r.idx1 = r.idx0
                /\ r.doneBefore => r.kind = "None"
          /\ (r.op = "skip" /\ ~CountNeg(r.count)) =>
                /\ r.kind = "Ok" /\ r.block = -1
                /\ r.count.hi = 0 /\ r.idx1 = r.idx0 + r.count.lo * N

(* C11 as stated: skip(count) with count < 0 meets no runtime check: the   *)
(* call returns normally and the iterator is in no error state.            *)
C11_NegativeSkipUndetected ==
    (last.op = "skip" /\ CountNeg(last.count)) => (last.kind = "Ok" /\ ~crashed)

(* C11 amended: skip(count) with count < 0 is caught at runtime by the     *)
(* assertion of offset: the call panics before the offset is changed, and  *)
(* it never returns, neither normally nor with an error value.             *)
C11_NegativeSkipPanics ==
    (last.op = "skip" /\ CountNeg(last.count)) =>
        /\ last.kind = "Panic"
        /\ crashed
        /\ last.idx1 = last.idx0
        /\ idx = last.idx0

\* a negative skip after the iterator has moved
C11_Witness ==
    /\ last.op = "skip"
    /\ CountNeg(last.count)
    /\ last.idx0 > 0

\* the bits of the result word the validator was asked about in call r
MaskVisited(r) ==
    {i \in MaskWord(r) :
        \E k \in 1..Len(r.vcalls) : r.vcalls[k].from = r.offset + i - 2}

\* the k-th validator call of r is about a set bit of the result word
MaskCallBit(r, k) ==
    CHOOSE i \in MaskWord(r) : r.vcalls[k].from = r.offset + i - 2

(* C13: a find_in_mask call ends, having asked the validator about set     *)
(* bits of (previous_block | (first << 1)) & second only, in strictly      *)
(* ascending bit order, each bit at most once and none skipped: at most    *)
(* popcount(result) <= 64 calls; every call but the last was rejected, and *)
(* when None is returned every set bit was asked about.                    *)
C13_MaskLoopTerminates ==
    (last.op = "mask" /\ last.kind # "End") =>
        /\ last.kind \in {"Some", "None", "Panic"}
        /\ \A k \in 1..Len(last.vcalls) :
              /\ last.vcalls[k].by = "mask"
              /\ \E i \in MaskWord(last) : last.vcalls[k].from = last.offset + i - 2
        /\ \A k \in 1..(Len(last.vcalls) - 1) :
              /\ last.vcalls[k].from < last.vcalls[k + 1].from
              /\ ~last.vcalls[k].ok
        /\ Len(last.vcalls) = Cardinality(MaskVisited(last))
        /\ Len(last.vcalls) <= Cardinality(MaskWord(last))
        /\ Cardinality(MaskWord(last)) <= WordBits
        /\ \A i \in MaskVisited(last) :
              \A h \in MaskWord(last) : h < i => h \in MaskVisited(last)
        /\ last.kind = "None" => MaskVisited(last) = MaskWord(last)

\* a window with two candidate bits: the lower one is asked about first,
\* rejected and cleared, then the higher one is asked about
C13_Witness ==
    /\ last.op = "mask"
    /\ Cardinality(MaskWord(last)) = 2
    /\ Len(last.vcalls) = 2
    /\ ~last.vcalls[1].ok
    /\ MaskCallBit(last, 1) < MaskCallBit(last, 2)

(* C14: no offset computation of the matchers underflows: every validator  *)
(* call of find_label_sequential has j >= 1, so its span starts at a       *)
(* non-negative offset, every validator call of find_in_mask has           *)
(* offset + idx >= 2, and no call of either matcher with a non-empty label *)
(* panics.                                                                 *)
C14_NoUnderflow ==
    \A r \in {last, again} :
        /\ \A k \in 1..Len(r.vcalls) :
              r.vcalls[k].by \in {"sequential", "mask"} => r.vcalls[k].from >= 0
        /\ (r.op \in {"find", "again", "mask"} /\ Len(label) >= 1)
              => r.kind # "Panic"

(* C16: the linear matcher is defined for the empty label: a find_label    *)
(* call with the empty label returns a result, the read of the label's     *)
(* first character does not panic.                                         *)
C16_DefinedForEmptyLabel ==
    \A r \in FindRecords : Len(label) = 0 => r.kind # "Panic"

\* the failing read of next lies ahead of the call r, inside the input
FailureAhead(r) ==
    io.next_at >= 0 /\ ULe(r.idx0, io.next_at) /\ io.next_at < Len(mmap)

(* C12: a find_label call in which the first-block routine or next fails   *)
(* returns the error of the failing read, unchanged; it has pulled only    *)
(* the blocks before the failing read and pulls none after it, the         *)
(* iterator is left at the failing read; a failing first-block routine     *)
(* always ends the call with its error, and no call that returns a match   *)
(* or "no match" has gone past the failing read of next.                   *)
C12_ErrorPropagated ==
    \A r \in FindRecords :
        /\ r.kind \in {"Some", "None", "Err", "Panic"}
        /\ r.kind = "Err" =>
              /\ r.err = io.error
              /\ r.pos = -1 /\ r.block = -1 /\ ~r.sawEnd /\ ~r.fromFirst
              /\ r.idx1 = r.idx0 + r.pulled * N
              /\ IF io.first
                 THEN r.first_block # -1 /\ r.pulled = 0 /\ r.vcalls = <<>>
                 ELSE r.idx1 = io.next_at
              /\ idx = r.idx1
              /\ ~crashed
        /\ (io.first /\ r.first_block # -1) => r.kind = "Err"
        /\ FailureAhead(r) => (ULe(r.idx1, io.next_at) /\ r.kind # "None")
        /\ r.kind # "Err" => r.err = "-"

\* next fails after find_label has pulled and searched a block: the call
\* returns the error, and the same call made again returns it again
C12_Witness ==
    /\ last.op = "find"
    /\ last.kind = "Err"
    /\ last.pulled >= 1
    /\ Len(last.vcalls) >= 1
    /\ again.op = "again"
    /\ again.kind = "Err"
    /\ again.pulled = 0

-----------------------------------------------------------------------------
(* run_engine *)

\* the state the label search is in when the model is about the runner
search_vars == <<label, overflow_checks, file_len, mmap, idx, held,
                 previous_block, mask_start, crashed, exhausted, last, again, io>>

InitRun ==
    /\ label = <<>>
    /\ overflow_checks = FALSE
    /\ file_len = 0
    /\ mmap = <<>>
    /\ idx = 0
    /\ held = -1
    /\ previous_block = {}
    /\ mask_start = -1
    /\ crashed = FALSE
    /\ exhausted = FALSE
    /\ last = NoOp
    /\ again = NoOp
    /\ io = NoFailure
    /\ \E k \in ResolvedInputKind, fb \in ResolvedInputKind \cup {"None"},
          f \in FileOrStdin :
          run = [NoRun EXCEPT !.pc = "call", !.kind = k, !.fallback_kind = fb,
                              !.file = f, !.kind0 = k, !.fallback0 = fb]

\* kind Mmap, file File: MmapInput::map_file(f) succeeds or fails
MapFile(ok) ==
    /\ run.pc = "call" /\ run.kind = "Mmap" /\ run.file = "File"
    /\ run' = [run EXCEPT !.pc = IF ok THEN "mapped" ELSE "map_failed",
                          !.maps = run.maps + 1,
                          !.fails = IF ok THEN run.fails ELSE run.fails + 1]
    /\ UNCHANGED search_vars

\* kind Mmap, file Stdin: todo!() panics
MapStdin ==
    /\ run.pc = "call" /\ run.kind = "Mmap" /\ run.file = "Stdin"
    /\ run' = [run EXCEPT !.pc = "done", !.result = "Panic"]
    /\ UNCHANGED search_vars

\* Ok(input) => with_output.run_and_output(engine, input)
RunMapped(ok, printed) ==
    /\ run.pc = "mapped"
    /\ run' = run_and_output(run, ok, printed)
    /\ UNCHANGED search_vars

\* Err(err), Some(fallback_kind): run_engine on the new input
Fallback ==
    /\ run.pc = "map_failed" /\ run.fallback_kind # "None"
    /\ run' = [new_input(run) EXCEPT !.pc = "call", !.depth = run.depth + 1]
    /\ UNCHANGED search_vars

\* Err(err), None: Err(err).wrap_err("Creating a memory map failed.")
MapError ==
    /\ run.pc = "map_failed" /\ run.fallback_kind = "None"
    /\ run' = [run EXCEPT !.pc = "done", !.result = "MapErr"]
    /\ UNCHANGED search_vars

\* kind Owned: get_contents(file)?, OwnedBytes::new(&contents)?, then the engine
RunOwned(read_ok, new_ok, ok, printed) ==
    /\ run.pc = "call" /\ run.kind = "Owned"
    /\ run' = IF ~read_ok THEN [run EXCEPT !.pc = "done", !.result = "ReadErr"]
              ELSE IF ~new_ok THEN [run EXCEPT !.pc = "done", !.result = "OwnedErr"]
              ELSE run_and_output(run, ok, printed)
    /\ UNCHANGED search_vars

\* kind Buffered: BufferedInput::new(file), then the engine
RunBuffered(ok, printed) ==
    /\ run.pc = "call" /\ run.kind = "Buffered"
    /\ run' = run_and_output(run, ok, printed)
    /\ UNCHANGED search_vars

NextRun ==
    \/ \E ok \in BOOLEAN : MapFile(ok)
    \/ MapStdin
    \/ \E ok \in BOOLEAN, printed \in BOOLEAN : RunMapped(ok, printed)
    \/ Fallback
    \/ MapError
    \/ \E read_ok \in BOOLEAN, new_ok \in BOOLEAN, ok \in BOOLEAN,
          printed \in BOOLEAN : RunOwned(read_ok, new_ok, ok, printed)
    \/ \E ok \in BOOLEAN, printed \in BOOLEAN : RunBuffered(ok, printed)

\* the call is one sequential computation: it goes on until it returns
SpecRun == InitRun /\ [][NextRun]_vars /\ WF_vars(NextRun)

\* what holds at every step of a run_engine call
RunSafety ==
    /\ run.depth <= 1 /\ run.maps <= 2 /\ run.engine_runs <= 1
    /\ run.depth = 1 =>
          /\ run.kind0 = "Mmap" /\ run.fails >= 1
          /\ run.fallback0 # "None"
          /\ run.kind = run.fallback0 /\ run.fallback_kind = "None"
    /\ (run.fails >= 1 /\ run.fallback0 = "None" /\ run.pc = "done")
          => (run.result = "MapErr" /\ run.engine_runs = 0)
    /\ run.fails = 2 =>
          (run.depth = 1 /\ run.kind = "Mmap" /\ run.engine_runs = 0
             /\ run.pc \in {"map_failed", "done"}
             /\ (run.pc = "done" => run.result = "MapErr"))
    /\ run.engine_runs = 1 =>
          /\ run.pc = "done" /\ run.result \in {"Ok", "EngineErr", "Panic"}
          /\ run.ran_with = run.kind
          /\ run.ran_with = (IF run.fails >= 1 THEN run.fallback0 ELSE run.kind0)
    /\ (run.pc = "done" /\ run.result = "MapErr") => run.fallback_kind = "None"

(* C15: run_engine falls back at most once and always terminates: after a  *)
(* failed mapping with a fallback kind the call goes on with that kind and *)
(* no fallback, without one the mapping error is returned; the engine runs *)
(* at most once, on the input of the kind the call ended with; a second    *)
(* failed mapping ends in the mapping error; every call comes to an end.   *)
C15_FallbackOnce == [](RunSafety) /\ <>(run.pc = "done")

\* the fallback kind is Mmap too and the second mapping fails: the call
\* ends with the mapping error and the engine did not run
C15_Witness ==
    /\ run.pc = "done"
    /\ run.depth = 1
    /\ run.fails = 2
    /\ run.result = "MapErr"

====
